---- MODULE Spec2Model ----
(***************************************************************************)
(* WasmFilter front end: the editable filter surface (#filter-input), its  *)
(* caret, the error slot (#filter-error) and the submit control            *)
(* (#filter-input-submit), driven by the three handlers of ts/index.ts and *)
(* the two caret functions of ts/cursor.ts.                                *)
(*                                                                         *)
(* ts/index.ts holds two variants of the handlers: lines 1-148 ("A": the   *)
(* lexer returns {tokens, errors}) and lines 149-353 ("B": the lexer       *)
(* returns the tokens or throws, wrapped by toResult).  The model carries  *)
(* the variant as a value fixed at start-up and models both.               *)
(*                                                                         *)
(* Strings are sequences of one-character strings.  The surface is the     *)
(* sequence of its child nodes; a child is a text node or a span whose     *)
(* children are text nodes.                                                *)
(***************************************************************************)
EXTENDS Integers, Sequences, FiniteSets, TLC

VARIABLES
    variant,        \* "A" (index.ts:1-148) or "B" (index.ts:149-353)
    childNodes,     \* child nodes of #filter-input
    selection,      \* window.getSelection(): rangeCount and its range 0
    error_text,     \* #filter-error textContent
    error_hidden,   \* #filter-error classList contains 'd-none'
    disabled,       \* #filter-input-submit disabled
    output,         \* the most recent call of wasm.lex_filter: its input and what it did
    last            \* the step taken last and what its handler observed

vars == <<variant, childNodes, selection, error_text, error_hidden, disabled, output, last>>

---------------------------------------------------------------------------
(* Bounds *)

\* longest raw text of the surface
MaxLen == 3
\* most tokens in one lex result
MaxTokens == 2
\* most diagnostics in one lex result
MaxDiags == 2
\* most characters of page text between the end of the surface and a caret
\* placed after it
MaxGap == 1

\* `null` of `number | null`
NULL == -1

Min(a, b) == IF a < b THEN a ELSE b

---------------------------------------------------------------------------
(* DOM nodes *)

TextNode(d) == [kind |-> "text", className |-> "", data |-> d, childNodes |-> <<>>]

SpanNode(c, kids) == [kind |-> "span", className |-> c, data |-> <<>>, childNodes |-> kids]

\* Node.textContent of a list of sibling nodes: the text of the text nodes in
\* pre-order
RECURSIVE textContent(_)
textContent(nodes) ==
    IF nodes = <<>> THEN <<>>
    ELSE (IF Head(nodes).kind = "text" THEN Head(nodes).data
          ELSE textContent(Head(nodes).childNodes))
         \o textContent(Tail(nodes))

\* the surface element as a node
Surface(nodes) == [kind |-> "div", className |-> "", data |-> <<>>, childNodes |-> nodes]

(* Boundary points.  at = "surface": the container is the node reached from *)
(* #filter-input by `path` (<<>> is the element itself) and `offset` is a   *)
(* character offset (text node) or a child index (element).                 *)
(* at = "document": (document, 0), where document.createRange() starts,     *)
(* before the surface.  at = "after": a point of the page after the         *)
(* surface, `offset` characters of page text past its end.                  *)
Point(path, offset) == [at |-> "surface", path |-> path, offset |-> offset]

DocStart == [at |-> "document", path |-> <<>>, offset |-> 0]

PageAfter(gap) == [at |-> "after", path |-> <<>>, offset |-> gap]

NoSelection == [rangeCount |-> 0, start |-> DocStart, end |-> DocStart]

Caret(bp) == [rangeCount |-> 1, start |-> bp, end |-> bp]

\* the node a path leads to
NodeAt(nodes, path) ==
    IF path = <<>> THEN Surface(nodes)
    ELSE IF Len(path) = 1 THEN nodes[path[1]]
    ELSE nodes[path[1]].childNodes[path[2]]

\* Node.length: characters of a text node, children of an element
NodeLength(node) == IF node.kind = "text" THEN Len(node.data) ELSE Len(node.childNodes)

\* every boundary point inside the surface: in the element, in a child, in a
\* text node of a span
SurfacePoints(nodes) ==
    {Point(<<>>, o) : o \in 0..Len(nodes)}
    \cup UNION {{Point(<<i>>, o) : o \in 0..NodeLength(nodes[i])} : i \in 1..Len(nodes)}
    \cup UNION {UNION {{Point(<<i, j>>, o) : o \in 0..NodeLength(nodes[i].childNodes[j])} :
                        j \in 1..Len(nodes[i].childNodes)} : i \in 1..Len(nodes)}

\* Range.toString() of the range from (surface, 0) to a point inside the
\* surface: the text of the text nodes, or their parts, that precede the point
TextBefore(nodes, bp) ==
    IF bp.path = <<>> THEN textContent(SubSeq(nodes, 1, bp.offset))
    ELSE LET i == bp.path[1]
             before == textContent(SubSeq(nodes, 1, i - 1))
         IN IF Len(bp.path) = 1
            THEN before \o (IF nodes[i].kind = "text"
                            THEN SubSeq(nodes[i].data, 1, bp.offset)
                            ELSE textContent(SubSeq(nodes[i].childNodes, 1, bp.offset)))
            ELSE before \o textContent(SubSeq(nodes[i].childNodes, 1, bp.path[2] - 1))
                        \o SubSeq(nodes[i].childNodes[bp.path[2]].data, 1, bp.offset)

\* page text that follows the surface (its content is not the program's)
PageText(n) == [k \in 1..n |-> "#"]

---------------------------------------------------------------------------
(* ts/cursor.ts *)

\* cursor.ts:5-10.  preCursorRange is set to the contents of the element and
\* its end is then moved to the start of the selection's range.  Range.setEnd
\* with a point before the range's start collapses the range onto that point,
\* so a range start before the surface gives the empty string; a range start
\* after the surface gives the whole text and the page text up to the point.
preCursorRange(nodes, range) ==
    IF range.start.at = "document" THEN <<>>
    ELSE IF range.start.at = "after" THEN textContent(nodes) \o PageText(range.start.offset)
    ELSE TextBefore(nodes, range.start)

\* cursor.ts:1-11, for an element that exists
saveCursorPosition(nodes, sel) ==
    IF sel.rangeCount = 0 THEN NULL
    ELSE Len(preCursorRange(nodes, sel))

\* cursor.ts:28 with `>` written for `>=`: a text node would not take a caret
\* at its end
takesCursorStrict(textLength, chars) == textLength > chars

\* cursor.ts:28: the text node takes the caret
takesCursor(textLength, chars) == textLength >= chars

\* cursor.ts:23-40.  st = [chars, start]: the characters still to skip and
\* the start of `range`, which document.createRange() puts at (document, 0).
RECURSIVE setCursorToPosition(_, _, _)
RECURSIVE forChildNodes(_, _, _, _)

setCursorToPosition(node, path, st) ==
    IF st.chars = 0 THEN st
    ELSE IF node.kind = "text"
         THEN LET textLength == Len(node.data)
              IN IF takesCursor(textLength, st.chars)
                 THEN [chars |-> 0, start |-> Point(path, st.chars)]
                 ELSE [st EXCEPT !.chars = @ - textLength]
         ELSE forChildNodes(node.childNodes, path, 1, st)

\* cursor.ts:35-38
forChildNodes(kids, path, k, st) ==
    IF k > Len(kids) THEN st
    ELSE LET after == setCursorToPosition(kids[k], Append(path, k), st)
         IN IF after.chars = 0 THEN after
            ELSE forChildNodes(kids, path, k + 1, after)

\* cursor.ts:13-48, for an element that exists: the selection afterwards
restoreCursorPosition(nodes, sel, cursorPosition) ==
    IF cursorPosition = NULL THEN sel
    ELSE LET found == setCursorToPosition(Surface(nodes), <<>>,
                                          [chars |-> cursorPosition, start |-> DocStart])
         IN Caret(found.start)

---------------------------------------------------------------------------
(* Highlighting: index.ts:100-143 (variant A), index.ts:253-293 (variant B) *)

\* BareToken of ../pkg, as the switch of index.ts:105-125 names its members
BareToken == {"Name", "Paren", "Comparator", "String", "Number", "JoinType", "Error"}

\* index.ts:104-125 (variant A) and index.ts:257-275 (variant B, which has no
\* case for BareToken.Error)
className(v, token) ==
    CASE token = "Name" -> "hl-name"
      [] token \in {"Paren", "Comparator"} -> "hl-cmpr"
      [] token = "String" -> "hl-str"
      [] token = "Number" -> "hl-num"
      [] token = "JoinType" -> "hl-join"
      [] token = "Error" /\ v = "A" -> "hl-invalid"
      [] OTHER -> ""

\* String.prototype.slice(from, to) for from, to >= 0: both are clamped to the
\* length, and the result is empty when from >= to
slice(str, from, to) ==
    LET f == Min(from, Len(str))
        t == Min(to, Len(str))
    IN IF f >= t THEN <<>> ELSE SubSeq(str, f + 1, t)

\* index.ts:129 with token.start written for token.end
nextLastEndStart(token) == token.start

\* index.ts:129: the text not highlighted resumes after the token
nextLastEnd(token) == token.end

\* index.ts:134 with the slice taken to the end of the input
highlightedSegmentToEnd(v, input, token) ==
    LET text == slice(input, token.start, Len(input))
    IN SpanNode(className(v, token.token), IF text = <<>> THEN <<>> ELSE <<TextNode(text)>>)

\* index.ts:132-134: a span whose textContent is set; setting textContent to
\* the empty string leaves the span without a child
highlightedSegment(v, input, token) ==
    LET text == slice(input, token.start, token.end)
    IN SpanNode(className(v, token.token), IF text = <<>> THEN <<>> ELSE <<TextNode(text)>>)

\* index.ts:103-137: the children appended to `wrapper` for tokens k, k+1, ...
RECURSIVE forTokens(_, _, _, _, _)
forTokens(v, input, tokens, k, last_end) ==
    IF k > Len(tokens) THEN
        \* index.ts:140
        <<TextNode(slice(input, last_end, Len(input)))>>
    ELSE LET token == tokens[k]
             textSegment == TextNode(slice(input, last_end, token.start))
         IN <<textSegment, highlightedSegment(v, input, token)>>
            \o forTokens(v, input, tokens, k + 1, nextLastEnd(token))

\* index.ts:101-140
wrapper(v, input, tokens) == forTokens(v, input, tokens, 1, 0)

---------------------------------------------------------------------------
(* index.ts:143: inputElement.innerHTML = wrapper.innerHTML.  The getter    *)
(* serialises the children of `wrapper` to markup, the setter parses the    *)
(* markup into the new children of the surface.                             *)

ClassNames == {"hl-name", "hl-cmpr", "hl-str", "hl-num", "hl-join", "hl-invalid", ""}

\* the characters of a class name
classChars(c) ==
    CASE c = "hl-name" -> <<"h", "l", "-", "n", "a", "m", "e">>
      [] c = "hl-cmpr" -> <<"h", "l", "-", "c", "m", "p", "r">>
      [] c = "hl-str" -> <<"h", "l", "-", "s", "t", "r">>
      [] c = "hl-num" -> <<"h", "l", "-", "n", "u", "m">>
      [] c = "hl-join" -> <<"h", "l", "-", "j", "o", "i", "n">>
      [] c = "hl-invalid" -> <<"h", "l", "-", "i", "n", "v", "a", "l", "i", "d">>
      [] OTHER -> <<>>

\* the serialiser escapes the markup characters of a text node
escapeChar(ch) ==
    CASE ch = "&" -> <<"&", "a", "m", "p", ";">>
      [] ch = "<" -> <<"&", "l", "t", ";">>
      [] ch = ">" -> <<"&", "g", "t", ";">>
      [] OTHER -> <<ch>>

RECURSIVE escapeString(_)
escapeString(str) ==
    IF str = <<>> THEN <<>> ELSE escapeChar(Head(str)) \o escapeString(Tail(str))

startTag(c) ==
    <<"<", "s", "p", "a", "n", " ", "c", "l", "a", "s", "s", "=", "\"">>
        \o classChars(c) \o <<"\"", ">">>

endTag == <<"<", "/", "s", "p", "a", "n", ">">>

\* Element.innerHTML getter: an empty text node serialises to nothing
RECURSIVE getInnerHTML(_)
getInnerHTML(nodes) ==
    IF nodes = <<>> THEN <<>>
    ELSE (IF Head(nodes).kind = "text" THEN escapeString(Head(nodes).data)
          ELSE startTag(Head(nodes).className)
                   \o getInnerHTML(Head(nodes).childNodes) \o endTag)
         \o getInnerHTML(Tail(nodes))

\* the first index >= i of ch in str, 0 if there is none
RECURSIVE indexOf(_, _, _)
indexOf(str, ch, i) ==
    IF i > Len(str) THEN 0
    ELSE IF str[i] = ch THEN i
    ELSE indexOf(str, ch, i + 1)

startsWith(str, i, prefix) ==
    /\ i + Len(prefix) - 1 <= Len(str)
    /\ SubSeq(str, i, i + Len(prefix) - 1) = prefix

Letters == {"a", "b", "c", "d", "e", "g", "h", "i", "j", "l", "m", "n", "o", "p",
            "r", "s", "t", "u", "v"}

\* the parser appends a character to the text node that ends the list, or
\* starts a text node: parsed markup has no empty and no adjacent text nodes
appendChar(nodes, ch) ==
    IF nodes # <<>> /\ nodes[Len(nodes)].kind = "text"
    THEN [nodes EXCEPT ![Len(nodes)].data = Append(@, ch)]
    ELSE Append(nodes, TextNode(<<ch>>))

\* the class attribute of the tag html[i..j]: the characters between its
\* first two quotes
classOfTag(html, i, j) ==
    LET q1 == indexOf(html, "\"", i)
        q2 == IF q1 = 0 THEN 0 ELSE indexOf(html, "\"", q1 + 1)
    IN IF q1 = 0 \/ q2 = 0 \/ q2 > j THEN ""
       ELSE LET value == SubSeq(html, q1 + 1, q2 - 1)
            IN IF \E c \in ClassNames : classChars(c) = value
               THEN CHOOSE c \in ClassNames : classChars(c) = value
               ELSE ""

(* Element.innerHTML setter: the fragment parser over html[i..].  `done`    *)
(* are the finished children, `open` is <<>> or holds the span being        *)
(* filled.  The serialiser escapes every "<" of a text node, so its markup  *)
(* never nests elements; a start tag met inside an open span closes it.     *)
(* A tag the markup does not end is dropped with the rest of the input.     *)
RECURSIVE parseFrom(_, _, _, _)
parseFrom(html, i, done, open) ==
    LET put(ch, n) ==
            IF open = <<>> THEN parseFrom(html, i + n, appendChar(done, ch), open)
            ELSE parseFrom(html, i + n, done,
                           <<[open[1] EXCEPT !.childNodes = appendChar(@, ch)]>>)
    IN IF i > Len(html) THEN done \o open
       ELSE IF html[i] = "&" THEN
                IF startsWith(html, i, <<"&", "a", "m", "p", ";">>) THEN put("&", 5)
                ELSE IF startsWith(html, i, <<"&", "l", "t", ";">>) THEN put("<", 4)
                ELSE IF startsWith(html, i, <<"&", "g", "t", ";">>) THEN put(">", 4)
                ELSE put("&", 1)
       ELSE IF html[i] = "<" /\ i < Len(html) /\ html[i + 1] = "/" THEN
                LET j == indexOf(html, ">", i)
                IN IF j = 0 THEN done \o open
                   ELSE parseFrom(html, j + 1, done \o open, <<>>)
       ELSE IF html[i] = "<" /\ i < Len(html) /\ html[i + 1] \in Letters THEN
                LET j == indexOf(html, ">", i)
                IN IF j = 0 THEN done \o open
                   ELSE parseFrom(html, j + 1, done \o open,
                                  <<SpanNode(classOfTag(html, i, j), <<>>)>>)
       ELSE put(html[i], 1)

setInnerHTML(html) == parseFrom(html, 1, <<>>, <<>>)

---------------------------------------------------------------------------
(* The external lexer and parser (../pkg) *)

\* the token kinds the lexer of the model returns
LexKinds == {"Name", "Error"}

\* the token contract: sorted by start, not overlapping, inside the text
TokenContract(tokens, n) ==
    /\ \A k \in 1..Len(tokens) :
          0 <= tokens[k].start /\ tokens[k].start <= tokens[k].end /\ tokens[k].end <= n
    /\ \A k \in 1..Len(tokens) - 1 : tokens[k].end <= tokens[k + 1].start

Tokens(n) == [token : LexKinds, start : 0..n, end : 0..n]

\* the token lists of at most MaxTokens tokens that keep the contract, for
\* each length of the text
ContractLists ==
    [n \in 0..MaxLen |->
        {tokens \in UNION {[1..m -> Tokens(n)] : m \in 0..MaxTokens} : TokenContract(tokens, n)}]

TokenLists(n) == ContractLists[n]

\* FilterError.message of the diagnostics, in the order the lexer reports them
Messages == <<<<"x">>, <<"y">>, <<"z">>, <<"w">>>>

ErrorLists == {SubSeq(Messages, 1, m) : m \in 0..Min(MaxDiags, Len(Messages))}

\* what a call of wasm.lex_filter(input) can do.  Variant A: it returns
\* {tokens, errors}.  Variant B: it returns the tokens.  Either call can throw.
LexOutcomes(v, input) ==
    {[threw |-> FALSE, tokens |-> t, errors |-> e, error |-> <<>>] :
        t \in TokenLists(Len(input)),
        e \in IF v = "A" THEN ErrorLists ELSE {<<>>}}
    \cup {[threw |-> TRUE, tokens |-> <<>>, errors |-> <<>>, error |-> <<"!">>]}

\* part_000:14-21 and index.ts:158-165
toResult(outcome) ==
    IF outcome.threw THEN [ok |-> FALSE, error |-> outcome.error, value |-> <<>>]
    ELSE [ok |-> TRUE, error |-> <<>>, value |-> outcome.tokens]

---------------------------------------------------------------------------
(* The record of the last step *)

Step(ev) ==
    [ev |-> ev, threw |-> FALSE, key |-> "", shiftKey |-> FALSE, position |-> NULL,
     input |-> <<>>, collapsed |-> FALSE, inserted |-> 0, submitted |-> 0,
     wrapper |-> <<>>]

---------------------------------------------------------------------------
(* DOM mutation *)

parentPath(path) == SubSeq(path, 1, Len(path) - 1)

\* the nodes with the children of the element at `path` replaced
setChildren(nodes, path, kids) ==
    IF path = <<>> THEN kids ELSE [nodes EXCEPT ![path[1]].childNodes = kids]

\* the nodes with the data of the text node at `path` replaced
setData(nodes, path, d) ==
    IF Len(path) = 1 THEN [nodes EXCEPT ![path[1]].data = d]
    ELSE [nodes EXCEPT ![path[1]].childNodes[path[2]].data = d]

collapsed(range) == range.start = range.end

\* a range inside one text node
inTextNode(nodes, range) ==
    /\ range.start.at = "surface" /\ range.end.at = "surface"
    /\ range.start.path = range.end.path
    /\ range.start.path # <<>>
    /\ NodeAt(nodes, range.start.path).kind = "text"

\* Range.deleteContents(), index.ts:51: the selected part of a text node is
\* removed and the range collapses onto its start
deleteContents(nodes, range) ==
    IF collapsed(range) \/ ~inTextNode(nodes, range)
    THEN [childNodes |-> nodes, range |-> [range EXCEPT !.end = range.start]]
    ELSE LET d == NodeAt(nodes, range.start.path).data
         IN [childNodes |-> setData(nodes, range.start.path,
                                    SubSeq(d, 1, range.start.offset)
                                        \o SubSeq(d, range.end.offset + 1, Len(d))),
             range |-> [range EXCEPT !.end = range.start]]

(* Range.insertNode(node), index.ts:57-58.  In a text node: the node is     *)
(* split at the start offset, the second part (empty when the offset is the *)
(* length) follows it, and the new node goes between the two.  In an        *)
(* element: the new node becomes the child at the start offset.  The start  *)
(* stays; a collapsed range ends after the new node; an end already in the  *)
(* parent moves with the children put before it.                            *)
insertNode(nodes, range, node) ==
    LET p == range.start.path
        o == range.start.offset
        container == NodeAt(nodes, p)
    IN IF container.kind = "text"
       THEN LET pp == parentPath(p)
                i == p[Len(p)]
                kids == NodeAt(nodes, pp).childNodes
                first == TextNode(SubSeq(container.data, 1, o))
                second == TextNode(SubSeq(container.data, o + 1, Len(container.data)))
            IN [childNodes |-> setChildren(nodes, pp,
                                  SubSeq(kids, 1, i - 1) \o <<first, node, second>>
                                      \o SubSeq(kids, i + 1, Len(kids))),
                range |-> [range EXCEPT !.end =
                              IF collapsed(range) THEN Point(pp, i + 1)
                              ELSE IF @.path = pp /\ @.offset >= i
                                   THEN Point(pp, @.offset + 2)
                                   ELSE @]]
       ELSE LET kids == container.childNodes
            IN [childNodes |-> setChildren(nodes, p,
                                  SubSeq(kids, 1, o) \o <<node>> \o SubSeq(kids, o + 1, Len(kids))),
                range |-> [range EXCEPT !.end =
                              IF collapsed(range) THEN Point(p, o + 1)
                              ELSE IF @.path = p /\ @.offset > o
                                   THEN Point(p, @.offset + 1)
                                   ELSE @]]

\* replacing all children of the surface (index.ts:143) moves a boundary
\* point that was inside it to (surface, 0)
afterReplace(sel) ==
    [sel EXCEPT !.start = IF @.at = "surface" THEN Point(<<>>, 0) ELSE @,
                !.end = IF @.at = "surface" THEN Point(<<>>, 0) ELSE @]

---------------------------------------------------------------------------
(* The host: the edit whose 'input' event the page listens to               *)
(* (index.ts:11-12), and the caret the user places.                         *)

\* the characters the user types
TypedChars == {"a"}

Edits ==
    {[inputType |-> "none", data |-> ""], [inputType |-> "deleteContentBackward", data |-> ""]}
    \cup {[inputType |-> "insertText", data |-> c] : c \in TypedChars}

\* the edit the host can make before it raises 'input'
editEnabled(nodes, sel, edit) ==
    \/ edit.inputType = "none"
    \/ /\ edit.inputType = "insertText"
       /\ sel.rangeCount = 1 /\ sel.start.at = "surface" /\ sel.end.at = "surface"
       /\ Len(textContent(nodes)) < MaxLen
    \/ /\ edit.inputType = "deleteContentBackward"
       /\ sel.rangeCount = 1
       /\ inTextNode(nodes, sel)
       /\ (collapsed(sel) => sel.start.offset > 0)

\* the surface and the selection after the host's edit: typed text replaces
\* the selected text and goes into the text node of the caret; a caret in an
\* element puts it at the end of the text node before the caret, else at the
\* start of the text node after it, else into a new text node
hostEdit(nodes, sel, edit) ==
    IF edit.inputType = "none" THEN [childNodes |-> nodes, selection |-> sel]
    ELSE IF edit.inputType = "insertText" THEN
        LET cut == deleteContents(nodes, sel)
            at == cut.range.start
            container == NodeAt(cut.childNodes, at.path)
            kids == container.childNodes
            k == at.offset
        IN IF container.kind = "text"
           THEN [childNodes |-> setData(cut.childNodes, at.path,
                                    SubSeq(container.data, 1, k) \o <<edit.data>>
                                        \o SubSeq(container.data, k + 1, Len(container.data))),
                 selection |-> Caret(Point(at.path, k + 1))]
           ELSE IF k >= 1 /\ kids[k].kind = "text"
           THEN [childNodes |-> setData(cut.childNodes, Append(at.path, k),
                                        Append(kids[k].data, edit.data)),
                 selection |-> Caret(Point(Append(at.path, k), Len(kids[k].data) + 1))]
           ELSE IF k < Len(kids) /\ kids[k + 1].kind = "text"
           THEN [childNodes |-> setData(cut.childNodes, Append(at.path, k + 1),
                                        <<edit.data>> \o kids[k + 1].data),
                 selection |-> Caret(Point(Append(at.path, k + 1), 1))]
           ELSE [childNodes |-> setChildren(cut.childNodes, at.path,
                                    SubSeq(kids, 1, k) \o <<TextNode(<<edit.data>>)>>
                                        \o SubSeq(kids, k + 1, Len(kids))),
                 selection |-> Caret(Point(Append(at.path, k + 1), 1))]
    ELSE IF collapsed(sel)
         THEN LET d == NodeAt(nodes, sel.start.path).data
                  o == sel.start.offset
              IN [childNodes |-> setData(nodes, sel.start.path,
                                         SubSeq(d, 1, o - 1) \o SubSeq(d, o + 1, Len(d))),
                  selection |-> Caret(Point(sel.start.path, o - 1))]
         ELSE LET cut == deleteContents(nodes, sel)
              IN [childNodes |-> cut.childNodes, selection |-> Caret(cut.range.start)]

\* the selections of a part of one text node
TextRanges(nodes) ==
    LET points == {bp \in SurfacePoints(nodes) : NodeAt(nodes, bp.path).kind = "text"}
    IN {[rangeCount |-> 1, start |-> r[1], end |-> r[2]] :
            r \in {q \in points \X points : q[1].path = q[2].path /\ q[1].offset < q[2].offset}}

\* every selection the user can make: none, a caret in the surface, a part of
\* one text node, a caret in the page before or after the surface
Selections(nodes) ==
    {NoSelection, Caret(DocStart)}
        \cup {Caret(PageAfter(g)) : g \in 0..MaxGap}
        \cup {Caret(bp) : bp \in SurfacePoints(nodes)}
        \cup TextRanges(nodes)

---------------------------------------------------------------------------
(* ts/index.ts: the handlers.  document.getElementById finds the three      *)
(* elements of the page in every call.                                      *)

\* Array.prototype.join('\n'), index.ts:87
RECURSIVE join(_)
join(messages) ==
    IF messages = <<>> THEN <<>>
    ELSE IF Len(messages) = 1 THEN messages[1]
    ELSE messages[1] \o <<"\n">> \o join(Tail(messages))

\* index.ts:83-98: the error slot after a lex result of variant A
errorSlotA(errors) ==
    IF Len(errors) # 0
    THEN [textContent |-> join(errors), hidden |-> FALSE]
    ELSE [textContent |-> <<>>, hidden |-> TRUE]

\* index.ts:235-251: the error slot after toResult of variant B
errorSlotB(result) ==
    IF ~result.ok
    THEN [textContent |-> result.error, hidden |-> FALSE]
    ELSE [textContent |-> <<>>, hidden |-> TRUE]

\* index.ts:100-144 and index.ts:253-294: the surface and the selection after
\* the highlighted markup replaces the children and the caret is restored
highlight(v, sel, input, tokens, position) ==
    LET kids == setInnerHTML(getInnerHTML(wrapper(v, input, tokens)))
    IN [childNodes |-> kids,
        selection |-> restoreCursorPosition(kids, afterReplace(sel), position)]

\* index.ts:103 with the loop skipped when the lex result has errors
tokensOfClean(outcome) == IF Len(outcome.errors) # 0 THEN <<>> ELSE outcome.tokens

\* index.ts:103: the tokens of the lex result are highlighted whatever its
\* errors are
tokensOf(outcome) == outcome.tokens

\* index.ts:70-148, on the surface and selection the host's edit left.  A
\* throw of wasm.lex_filter (line 81) ends the handler there.
handleFilterInputA(nodes, sel, outcome) ==
    LET position == saveCursorPosition(nodes, sel)
        input == textContent(nodes)
        slot == errorSlotA(outcome.errors)
        shown == highlight("A", sel, input, tokensOf(outcome), position)
    IN /\ variant = "A"
       /\ output' = [called |-> TRUE, threw |-> outcome.threw, input |-> input,
                     tokens |-> outcome.tokens,
                     errors |-> outcome.errors]
       /\ last' = [Step("input") EXCEPT !.threw = outcome.threw, !.position = position,
                                         !.input = input]
       /\ IF outcome.threw
          THEN /\ childNodes' = nodes
               /\ selection' = sel
               /\ UNCHANGED <<error_text, error_hidden>>
          ELSE /\ error_text' = slot.textContent
               /\ error_hidden' = slot.hidden
               /\ childNodes' = shown.childNodes
               /\ selection' = shown.selection
       /\ UNCHANGED <<variant, disabled>>

\* index.ts:223-295
handleFilterInputB(nodes, sel, outcome) ==
    LET position == saveCursorPosition(nodes, sel)
        input == textContent(nodes)
        result == toResult(outcome)
        slot == errorSlotB(result)
        shown == highlight("B", sel, input, result.value, position)
    IN /\ variant = "B"
       /\ output' = [called |-> TRUE, threw |-> outcome.threw, input |-> input,
                     tokens |-> outcome.tokens,
                     errors |-> outcome.errors]
       /\ last' = [Step("input") EXCEPT !.position = position, !.input = input]
       /\ error_text' = slot.textContent
       /\ error_hidden' = slot.hidden
       /\ IF ~result.ok
          THEN /\ childNodes' = nodes
               /\ selection' = sel
          ELSE /\ childNodes' = shown.childNodes
               /\ selection' = shown.selection
       /\ UNCHANGED <<variant, disabled>>

\* the 'input' event: the host edits the surface, then calls the listener
InputEventA ==
    \E edit \in Edits :
        /\ editEnabled(childNodes, selection, edit)
        /\ LET host == hostEdit(childNodes, selection, edit)
           IN \E outcome \in LexOutcomes("A", textContent(host.childNodes)) :
                handleFilterInputA(host.childNodes, host.selection, outcome)

InputEventB ==
    \E edit \in Edits :
        /\ editEnabled(childNodes, selection, edit)
        /\ LET host == hostEdit(childNodes, selection, edit)
           IN \E outcome \in LexOutcomes("B", textContent(host.childNodes)) :
                handleFilterInputB(host.childNodes, host.selection, outcome)

\* index.ts:14-32 and index.ts:167-185: line 21 disables the control, a throw
\* of wasm.parse_filter (line 24) ends the handler before line 28 enables it
submitDisabled(parseThrows) == IF parseThrows THEN TRUE ELSE FALSE

\* index.ts:14-32 with the text read at line 23 written back to the surface
handleFilterSubmitFlattening ==
    \E parseThrows \in BOOLEAN :
        /\ disabled' = submitDisabled(parseThrows)
        /\ childNodes' = IF textContent(childNodes) = <<>> THEN <<>>
                         ELSE <<TextNode(textContent(childNodes))>>
        /\ selection' = afterReplace(selection)
        /\ last' = [Step("submit") EXCEPT !.threw = parseThrows,
                                          !.input = textContent(childNodes),
                                          !.submitted = 1]
        /\ UNCHANGED <<variant, error_text, error_hidden, output>>

handleFilterSubmit ==
    \E parseThrows \in BOOLEAN :
        /\ disabled' = submitDisabled(parseThrows)
        /\ last' = [Step("submit") EXCEPT !.threw = parseThrows,
                                          !.input = textContent(childNodes),
                                          !.submitted = 1]
        /\ UNCHANGED <<variant, childNodes, selection, error_text, error_hidden, output>>

\* index.ts:53-57 without the second insertNode
secondNewlineNever(nodes, range, pageLast) == FALSE

\* index.ts:53-55: the condition of the second line break.  pageLast: the
\* last child of the surface's parent element is or holds the surface.
secondNewline(nodes, range, pageLast) ==
    LET p == range.start.path
        startContainer == NodeAt(nodes, p)
        intersectsLastChild ==
            IF p = <<>> THEN pageLast
            ELSE p[Len(p)] = Len(NodeAt(nodes, parentPath(p)).childNodes)
    IN /\ intersectsLastChild
       /\ range.end.offset = Len(textContent(<<startContainer>>))

\* index.ts:61: a position of 0 is falsy, like null
truthy(position) == position # NULL /\ position # 0

\* index.ts:35-63: shift+Enter.  getRangeAt(0) (line 44) throws when the
\* selection has no range.
shiftEnter(nodes, sel, pageLast) ==
    LET position == saveCursorPosition(nodes, sel)
        same == [childNodes |-> nodes, selection |-> sel, threw |-> FALSE,
                 position |-> position, collapsed |-> collapsed(sel), inserted |-> 0]
    IN IF sel.rangeCount = 0 THEN [same EXCEPT !.threw = TRUE]
       ELSE IF sel.end.at # "surface" THEN same
       ELSE LET cut == deleteContents(nodes, sel)
                twice == secondNewline(cut.childNodes, cut.range, pageLast)
                one == IF twice
                       THEN insertNode(cut.childNodes, cut.range, TextNode(<<"\n">>))
                       ELSE cut
                two == insertNode(one.childNodes, one.range, TextNode(<<"\n">>))
                caret == Caret(two.range.end)
            IN [childNodes |-> two.childNodes,
                selection |-> IF truthy(position)
                              THEN restoreCursorPosition(two.childNodes, caret, position + 1)
                              ELSE caret,
                threw |-> FALSE,
                position |-> position,
                collapsed |-> collapsed(sel),
                inserted |-> IF twice THEN 2 ELSE 1]

Keys == {"Enter", "a"}

\* index.ts:64 with the branch of the plain line-break key never taken
isEnterNever(key) == FALSE

\* index.ts:64: e.key === 'Enter'
isEnter(key) == key = "Enter"

\* index.ts:34-68 and index.ts:187-221
handleFilterKeydown ==
    \E key \in Keys, shiftKey \in BOOLEAN, pageLast \in BOOLEAN, parseThrows \in BOOLEAN :
        LET here == [Step("keydown") EXCEPT !.key = key, !.shiftKey = shiftKey,
                                            !.input = textContent(childNodes)]
        IN IF shiftKey /\ key = "Enter"
           THEN LET done == shiftEnter(childNodes, selection, pageLast)
                IN /\ Len(textContent(done.childNodes)) <= MaxLen
                   /\ childNodes' = done.childNodes
                   /\ selection' = done.selection
                   /\ last' = [here EXCEPT !.threw = done.threw, !.position = done.position,
                                           !.collapsed = done.collapsed,
                                           !.inserted = done.inserted]
                   /\ UNCHANGED <<variant, error_text, error_hidden, disabled, output>>
           ELSE IF isEnter(key)
           THEN /\ disabled' = submitDisabled(parseThrows)
                /\ last' = [here EXCEPT !.threw = parseThrows, !.submitted = 1]
                /\ UNCHANGED <<variant, childNodes, selection, error_text, error_hidden, output>>
           ELSE /\ last' = here
                /\ UNCHANGED <<variant, childNodes, selection, error_text, error_hidden,
                               disabled, output>>

\* the user moves the caret or selects text
HostSelect ==
    /\ \E sel \in Selections(childNodes) : selection' = sel
    /\ last' = Step("select")
    /\ UNCHANGED <<variant, childNodes, error_text, error_hidden, disabled, output>>

---------------------------------------------------------------------------
(* The page after index.ts has registered its listeners (index.ts:5-12)     *)

Init ==
    /\ variant \in {"A", "B"}
    /\ childNodes = <<>>
    /\ selection = NoSelection
    /\ error_text = <<>>
    /\ error_hidden \in BOOLEAN
    /\ disabled = FALSE
    /\ output = [called |-> FALSE, threw |-> FALSE, input |-> <<>>, tokens |-> <<>>,
                 errors |-> <<>>]
    /\ last = Step("load")

Next ==
    \/ InputEventA
    \/ InputEventB
    \/ handleFilterKeydown
    \/ handleFilterSubmit
    \/ HostSelect

Spec == Init /\ [][Next]_vars

---------------------------------------------------------------------------
(* Restrictions of the machine.  The whole machine is too large to explore  *)
(* with texts of MaxLen characters, so each group of properties is verified *)
(* on the steps it is about, started from every page those steps can meet.  *)

\* the strings of at most n characters over `chars`
Texts(chars, n) == UNION {[1..m -> chars] : m \in 0..n}

\* the children of the surface after 'input' was handled for `input` with
\* the lexer returning `tokens`
rendered(v, input, tokens) == setInnerHTML(getInnerHTML(wrapper(v, input, tokens)))

\* the surfaces an 'input' event of variant A leaves for the texts of "a"
RenderedSurfaces ==
    UNION {{rendered("A", input, tokens) : tokens \in TokenLists(Len(input))} :
              input \in Texts({"a"}, MaxLen)}

\* a call of restoreCursorPosition(inputElement, position)
CallRestore ==
    \E position \in {NULL} \cup 0..MaxLen + 1 :
        /\ selection' = restoreCursorPosition(childNodes, selection, position)
        /\ last' = [Step("restore") EXCEPT !.position = position,
                                           !.input = textContent(childNodes)]
        /\ UNCHANGED <<variant, childNodes, error_text, error_hidden, disabled, output>>

\* a call of saveCursorPosition(inputElement); `position` is what it returns
CallSave ==
    /\ last' = [Step("save") EXCEPT !.position = saveCursorPosition(childNodes, selection),
                                    !.input = textContent(childNodes)]
    /\ UNCHANGED <<variant, childNodes, selection, error_text, error_hidden, disabled, output>>

InitCursor ==
    /\ variant = "A"
    /\ childNodes \in RenderedSurfaces
    /\ selection = NoSelection
    /\ error_text = <<>>
    /\ error_hidden = TRUE
    /\ disabled = FALSE
    /\ output = [called |-> FALSE, threw |-> FALSE, input |-> <<>>, tokens |-> <<>>,
                 errors |-> <<>>]
    /\ last = Step("load")

NextCursor ==
    \/ HostSelect
    \/ CallRestore
    \/ CallSave

\* the two functions of ts/cursor.ts on every rendered surface
SpecCursor == InitCursor /\ [][NextCursor]_vars

\* no call of the lexer has returned yet: the surface holds what was typed
Typing == ~(output.called /\ ~output.threw)

NextInput ==
    \/ Typing /\ HostSelect
    \/ Typing /\ InputEventA
    \/ Typing /\ InputEventB

\* 'input' events from the loaded page until the lexer returns for the first
\* time; before that the lexer has thrown and the surface is as typed
SpecInput == Init /\ [][NextInput]_vars

InitKeys ==
    /\ variant = "A"
    /\ childNodes \in RenderedSurfaces
    /\ selection = NoSelection
    /\ error_text = <<>>
    /\ error_hidden = TRUE
    /\ disabled = FALSE
    /\ output \in {[called |-> TRUE, threw |-> FALSE, input |-> textContent(childNodes),
                    tokens |-> tokens, errors |-> <<>>] :
                        tokens \in {t \in TokenLists(Len(textContent(childNodes))) :
                                       rendered("A", textContent(childNodes), t) = childNodes}}
    /\ last = Step("load")

\* no key has been pressed yet
Placing == last.ev \in {"load", "select"}

NextKeys ==
    \/ Placing /\ HostSelect
    \/ handleFilterKeydown
    \/ handleFilterSubmit

\* the user places the caret on a rendered surface, then 'keydown' and
\* 'submit' events follow
SpecKeys == InitKeys /\ [][NextKeys]_vars

\* the characters of the texts that are rendered: a letter and the two
\* characters the markup escapes
RenderChars == {"a", "<", "&"}

InitRender ==
    /\ variant \in {"A", "B"}
    /\ childNodes \in {IF input = <<>> THEN <<>> ELSE <<TextNode(input)>> :
                          input \in Texts(RenderChars, MaxLen)}
    /\ selection = NoSelection
    /\ error_text = <<>>
    /\ error_hidden = TRUE
    /\ disabled = FALSE
    /\ output = [called |-> FALSE, threw |-> FALSE, input |-> <<>>, tokens |-> <<>>,
                 errors |-> <<>>]
    /\ last = Step("load")

\* the error slot shows the diagnostics of the event handled last
Shown == last.ev = "input" /\ ~output.threw /\ Len(output.errors) # 0

\* the call of the lexer in the next event, which brings no edit, throws
Failing ==
    output' = [called |-> TRUE, threw |-> TRUE, input |-> textContent(childNodes),
               tokens |-> <<>>, errors |-> <<>>]

NextRender ==
    \/ last.ev = "load" /\ InputEventA
    \/ last.ev = "load" /\ InputEventB
    \/ Shown /\ Failing /\ InputEventA

\* an 'input' event on a surface that holds a typed text in one text node,
\* and after a lexer call that returned diagnostics, an 'input' event whose
\* call throws
SpecRender == InitRender /\ [][NextRender]_vars

\* most tokens in a lex result of SpecKinds
MaxKindTokens == 3

\* the members of BareToken and a kind the switch does not know
AllKinds == BareToken \cup {"Unknown"}

\* the kinds of the first, second, ... token of a longer lex result
KindOrder == <<"Name", "Comparator", "Number", "String", "JoinType", "Paren", "Error">>

\* the characters of the texts of SpecKinds
KindChars == {"a", ">", "1"}

\* the token lists of SpecKinds for a text of n characters: one token of any
\* kind, or up to MaxKindTokens tokens of the kinds of KindOrder, keeping the
\* contract
KindLists ==
    [n \in 0..MaxLen |->
        {<<>>}
        \cup {<<token>> : token \in {t \in [token : AllKinds, start : 0..n, end : 0..n] :
                                        t.start <= t.end}}
        \cup UNION {{[k \in 1..m |-> [token |-> KindOrder[k], start |-> b[2 * k - 1],
                                      end |-> b[2 * k]]] :
                        b \in {c \in [1..2 * m -> 0..n] :
                                  \A i \in 1..2 * m - 1 : c[i] <= c[i + 1]}} :
                    m \in 2..Min(MaxKindTokens, Len(KindOrder))}]

\* what wasm.lex_filter(input) returns in SpecKinds
KindOutcomes(input) ==
    {[threw |-> FALSE, tokens |-> t, errors |-> <<>>, error |-> <<>>] :
        t \in KindLists[Len(input)]}

\* the 'input' event with no edit by the host and a lex result of KindOutcomes
InputKindsA ==
    \E outcome \in KindOutcomes(textContent(childNodes)) :
        handleFilterInputA(childNodes, selection, outcome)

InputKindsB ==
    \E outcome \in KindOutcomes(textContent(childNodes)) :
        handleFilterInputB(childNodes, selection, outcome)

InitKinds ==
    /\ variant \in {"A", "B"}
    /\ childNodes \in {IF input = <<>> THEN <<>> ELSE <<TextNode(input)>> :
                          input \in Texts(KindChars, MaxLen)}
    /\ selection = NoSelection
    /\ error_text = <<>>
    /\ error_hidden = TRUE
    /\ disabled = FALSE
    /\ output = [called |-> FALSE, threw |-> FALSE, input |-> <<>>, tokens |-> <<>>,
                 errors |-> <<>>]
    /\ last = Step("load")

NextKinds ==
    \/ last.ev = "load" /\ InputKindsA
    \/ last.ev = "load" /\ InputKindsB

\* one 'input' event on a typed text whose lex result has tokens of every
\* kind
SpecKinds == InitKinds /\ [][NextKinds]_vars

\* every list of at most MaxTokens tokens with offsets inside a text of n
\* characters, the lists that break the contract included
AnyLists ==
    [n \in 0..MaxLen |-> UNION {[1..m -> Tokens(n)] : m \in 0..MaxTokens}]

\* what a wasm.lex_filter(input) that does not keep the contract returns
AnyOutcomes(input) ==
    {[threw |-> FALSE, tokens |-> t, errors |-> <<>>, error |-> <<>>] :
        t \in AnyLists[Len(input)]}

\* the 'input' event with no edit by the host and a lex result of AnyOutcomes
InputAnyA ==
    \E outcome \in AnyOutcomes(textContent(childNodes)) :
        handleFilterInputA(childNodes, selection, outcome)

InputAnyB ==
    \E outcome \in AnyOutcomes(textContent(childNodes)) :
        handleFilterInputB(childNodes, selection, outcome)

InitBreach ==
    /\ variant \in {"A", "B"}
    /\ childNodes \in {IF input = <<>> THEN <<>> ELSE <<TextNode(input)>> :
                          input \in Texts({"a", "b"}, MaxLen)}
    /\ selection = NoSelection
    /\ error_text = <<>>
    /\ error_hidden = TRUE
    /\ disabled = FALSE
    /\ output = [called |-> FALSE, threw |-> FALSE, input |-> <<>>, tokens |-> <<>>,
                 errors |-> <<>>]
    /\ last = Step("load")

NextBreach ==
    \/ last.ev = "load" /\ InputAnyA
    \/ last.ev = "load" /\ InputAnyB

\* one 'input' event on a typed text with a lexer that may break the token
\* contract
SpecBreach == InitBreach /\ [][NextBreach]_vars

\* the lexer has returned for the 'input' event handled last
Returned == last.ev = "input" /\ output.called /\ ~output.threw

\* the next 'input' event brings no edit and the lexer, being deterministic,
\* does what it did for the same text in the event before
Repeating == output' = output

NextRepeat ==
    \/ Typing /\ HostSelect
    \/ Typing /\ InputEventA
    \/ Typing /\ InputEventB
    \/ Returned /\ Repeating /\ InputEventA
    \/ Returned /\ Repeating /\ InputEventB

\* the 'input' events of SpecInput, and after the one for which the lexer
\* returns a second 'input' event with no edit in between
SpecRepeat == Init /\ [][NextRepeat]_vars

(* handleFilterInput statement by statement.  `last.ev` is the statement    *)
(* the running call has reached, `last.position`, `last.input` and          *)
(* `last.wrapper` are its locals, `output` is the lex result it holds.      *)
(* Every handler is a synchronous function, so the host calls the next      *)
(* listener only after the running one has returned.                        *)

\* the statements after which a call of handleFilterInput is still running
RunningAt == {"saved", "lexed", "built", "installed"}

\* no listener is running: the host may deliver an event
Idle == last.ev \notin RunningAt

\* index.ts:77 with the offset taken after the children were replaced
savedPositionAfterReplace(nodes, sel) == saveCursorPosition(nodes, afterReplace(sel))

\* index.ts:77, const position = saveCursorPosition(inputElement)
savedPosition(nodes, sel) == saveCursorPosition(nodes, sel)

\* the host's edit, then index.ts:70-78: the offset is captured and the text
\* is read
StepSave ==
    \E edit \in Edits :
        /\ editEnabled(childNodes, selection, edit)
        /\ LET host == hostEdit(childNodes, selection, edit)
           IN /\ childNodes' = host.childNodes
              /\ selection' = host.selection
              /\ last' = [Step("saved") EXCEPT
                             !.position = savedPosition(host.childNodes, host.selection),
                             !.input = textContent(host.childNodes)]
        /\ UNCHANGED <<variant, error_text, error_hidden, disabled, output>>

\* index.ts:81-98 and index.ts:232-251: the lexer is called and the error
\* slot is written; a throw (variant A) or a failed result (variant B) ends
\* the call
StepLex ==
    /\ last.ev = "saved"
    /\ \E outcome \in LexOutcomes(variant, last.input) :
        LET result == toResult(outcome)
            slot == IF variant = "A" THEN errorSlotA(outcome.errors) ELSE errorSlotB(result)
            thrown == variant = "A" /\ outcome.threw
            ended == thrown \/ (variant = "B" /\ ~result.ok)
        IN /\ output' = [called |-> TRUE, threw |-> outcome.threw, input |-> last.input,
                         tokens |-> outcome.tokens, errors |-> outcome.errors]
           /\ IF thrown
              THEN UNCHANGED <<error_text, error_hidden>>
              ELSE /\ error_text' = slot.textContent
                   /\ error_hidden' = slot.hidden
           /\ last' = IF ended
                      THEN [Step("input") EXCEPT !.threw = thrown,
                                                 !.position = last.position,
                                                 !.input = last.input]
                      ELSE [last EXCEPT !.ev = "lexed"]
    /\ UNCHANGED <<variant, childNodes, selection, disabled>>

\* index.ts:100-140 and index.ts:253-290: the highlighted tree is built in an
\* element that is not in the document
StepBuild ==
    /\ last.ev = "lexed"
    /\ last' = [last EXCEPT !.ev = "built",
                            !.wrapper = wrapper(variant, last.input, tokensOf(output))]
    /\ UNCHANGED <<variant, childNodes, selection, error_text, error_hidden, disabled,
                   output>>

\* index.ts:143, inputElement.innerHTML = wrapper.innerHTML
StepInstall ==
    /\ last.ev = "built"
    /\ childNodes' = setInnerHTML(getInnerHTML(last.wrapper))
    /\ selection' = afterReplace(selection)
    /\ last' = [last EXCEPT !.ev = "installed"]
    /\ UNCHANGED <<variant, error_text, error_hidden, disabled, output>>

\* index.ts:144-148, restoreCursorPosition(inputElement, position), and the
\* call returns
StepRestore ==
    /\ last.ev = "installed"
    /\ selection' = restoreCursorPosition(childNodes, selection, last.position)
    /\ last' = [Step("input") EXCEPT !.position = last.position, !.input = last.input]
    /\ UNCHANGED <<variant, childNodes, error_text, error_hidden, disabled, output>>

InitSteps ==
    /\ variant \in {"A", "B"}
    /\ childNodes \in {IF input = <<>> THEN <<>> ELSE <<TextNode(input)>> :
                          input \in Texts({"a"}, MaxLen)}
    /\ selection = NoSelection
    /\ error_text = <<>>
    /\ error_hidden = TRUE
    /\ disabled = FALSE
    /\ output = [called |-> FALSE, threw |-> FALSE, input |-> <<>>, tokens |-> <<>>,
                 errors |-> <<>>]
    /\ last = Step("load")

\* no key was pressed and no form submitted yet
Quiet == last.ev \in {"load", "select", "input"}

NextSteps ==
    \/ Idle /\ Placing /\ HostSelect
    \/ Idle /\ Placing /\ StepSave
    \/ StepLex
    \/ StepBuild
    \/ StepInstall
    \/ StepRestore
    \/ Idle /\ Quiet /\ handleFilterKeydown
    \/ Idle /\ Quiet /\ handleFilterSubmit

\* on a surface that holds a typed text: the user places the caret, one
\* 'input' event is handled one statement at a time, and a 'keydown' or a
\* 'submit' event is delivered before it or after it
SpecSteps == InitSteps /\ [][NextSteps]_vars

---------------------------------------------------------------------------
(* Properties *)

\* the paths of the text nodes of the surface, in pre-order, from child i on
RECURSIVE LeavesFrom(_, _)
LeavesFrom(nodes, i) ==
    IF i > Len(nodes) THEN <<>>
    ELSE (IF nodes[i].kind = "text" THEN <<<<i>>>>
          ELSE [j \in 1..Len(nodes[i].childNodes) |-> <<i, j>>])
         \o LeavesFrom(nodes, i + 1)

Leaves(nodes) == LeavesFrom(nodes, 1)

\* the boundary point at the end of the last text node of the surface
LastLeafEnd(nodes) ==
    LET path == Leaves(nodes)[Len(Leaves(nodes))]
    IN Point(path, Len(NodeAt(nodes, path).data))

\* the messages with a line break between two of them
RECURSIVE Lines(_, _)
Lines(messages, k) ==
    IF k > Len(messages) THEN <<>>
    ELSE (IF k = 1 THEN <<>> ELSE <<"\n">>) \o messages[k] \o Lines(messages, k + 1)

\* the span children of the surface, in order
RECURSIVE Spans(_)
Spans(nodes) ==
    IF nodes = <<>> THEN <<>>
    ELSE (IF Head(nodes).kind = "span" THEN <<Head(nodes)>> ELSE <<>>) \o Spans(Tail(nodes))

(* C1: round trip.  After restoreCursorPosition has placed the caret at a   *)
(* position pos of 0..length(text), both ends included, on a tree rendered  *)
(* from a text and a token list that keeps the contract,                    *)
(* saveCursorPosition on that tree returns pos.                             *)
RoundTrip ==
    (last.ev = "restore" /\ last.position \in 0..Len(textContent(childNodes)))
        => saveCursorPosition(childNodes, selection) = last.position

\* the caret was restored to the end of a text of two or more characters that
\* is spread over several children
RoundTripAtEnd ==
    /\ last.ev = "restore"
    /\ Len(childNodes) >= 2
    /\ Len(textContent(childNodes)) >= 2
    /\ last.position = Len(textContent(childNodes))
    /\ selection.start.at = "surface"
    /\ saveCursorPosition(childNodes, selection) = last.position

(* C2: content preservation.  After handleFilterInput has built and         *)
(* installed the tree for a text and a token list that keeps the contract,  *)
(* the text of the tree's text nodes, in pre-order, is the text that was    *)
(* lexed.                                                                   *)
ContentPreserved ==
    (last.ev = "input" /\ output.called /\ ~output.threw)
        => textContent(childNodes) = last.input

\* a text with a markup character was rendered with two tokens, one of them
\* not empty
ContentPreservedMarkup ==
    /\ last.ev = "input" /\ output.called /\ ~output.threw
    /\ Len(output.tokens) = 2
    /\ \E i \in 1..Len(last.input) : last.input[i] = "<"
    /\ \E k \in 1..Len(childNodes) :
          childNodes[k].kind = "span" /\ Len(childNodes[k].childNodes) # 0
    /\ textContent(childNodes) = last.input

(* C3: the submit control is enabled after every submit event, on every     *)
(* exit path of handleFilterSubmit: no state between two events has the     *)
(* control disabled.                                                        *)
SubmitControlEnabled == ~disabled

(* C4: when the lexer throws during an 'input' event the handler does not   *)
(* propagate the failure, and the error slot is visible with a diagnostic.  *)
LexFailureContained ==
    (last.ev = "input" /\ output.threw)
        => (~last.threw /\ ~error_hidden /\ Len(error_text) # 0)

(* C5: after an 'input' event whose lex result has diagnostics the error    *)
(* slot holds their messages joined by line breaks and is visible; after    *)
(* one whose result has none the slot is empty and hidden; so the slot is   *)
(* visible exactly when the most recent lex produced a diagnostic (the      *)
(* error a throwing lexer raises counted as one where the handler shows it).*)
SlotFollowsLex ==
    output.called =>
        /\ (~output.threw /\ Len(output.errors) # 0)
              => (error_text = Lines(output.errors, 1) /\ ~error_hidden)
        /\ (~output.threw /\ Len(output.errors) = 0)
              => (error_text = <<>> /\ error_hidden)
        /\ ~error_hidden <=> (Len(output.errors) # 0 \/ (variant = "B" /\ output.threw))

(* C6: diagnostics do not gate the tree.  After an 'input' event whose lex  *)
(* result has a non-empty diagnostics list, the error slot is visible and   *)
(* the highlighted tree is installed all the same: its text is the text     *)
(* lexed, its spans are the tokens with their classes, and the caret is     *)
(* back at the saved position.                                              *)
DiagnosticsDoNotGate ==
    (last.ev = "input" /\ ~output.threw /\ Len(output.errors) # 0) =>
        /\ ~error_hidden /\ Len(error_text) # 0
        /\ textContent(childNodes) = last.input
        /\ Len(Spans(childNodes)) = Len(output.tokens)
        /\ \A k \in 1..Len(output.tokens) :
              /\ textContent(<<Spans(childNodes)[k]>>)
                    = SubSeq(last.input, output.tokens[k].start + 1, output.tokens[k].end)
              /\ Spans(childNodes)[k].className
                    = (IF output.tokens[k].token = "Error" THEN "hl-invalid" ELSE "hl-name")
        /\ last.position \in 0..Len(last.input)
              => saveCursorPosition(childNodes, selection) = last.position

\* a lex result with a diagnostic and an Error token was rendered and the
\* caret put back inside the text
DegradedLexRendered ==
    /\ last.ev = "input" /\ ~output.threw /\ Len(output.errors) # 0
    /\ Len(last.input) >= 2
    /\ \E k \in 1..Len(output.tokens) :
          output.tokens[k].token = "Error" /\ output.tokens[k].start < output.tokens[k].end
    /\ last.position >= 1
    /\ selection.rangeCount = 1 /\ selection.start.at = "surface"
    /\ ~error_hidden

(* C7: restore boundaries.  On a text that is not empty,                    *)
(* restoreCursorPosition with pos = length(text) leaves the caret at the    *)
(* end of the last text node, and with pos = 0 leaves it inside the surface *)
(* before the first character.                                              *)
RestoreBoundaries ==
    (last.ev = "restore" /\ Len(textContent(childNodes)) >= 1) =>
        /\ last.position = Len(textContent(childNodes))
              => selection = Caret(LastLeafEnd(childNodes))
        /\ last.position = 0
              => /\ selection.rangeCount = 1
                 /\ collapsed(selection)
                 /\ selection.start.at = "surface"
                 /\ TextBefore(childNodes, selection.start) = <<>>

(* C8: restore clamping.  restoreCursorPosition with a pos greater than the *)
(* length of the text leaves the caret at the end of the last text node     *)
(* when the tree has one, and leaves the selection as it was when the tree  *)
(* has none.                                                                *)
RestoreClamps ==
    [][(last'.ev = "restore" /\ last'.position > Len(textContent(childNodes)))
          => IF Len(Leaves(childNodes)) # 0
             THEN selection' = Caret(LastLeafEnd(childNodes))
             ELSE selection' = selection]_vars

(* C9: saveCursorPosition returns null exactly when there is no caret or    *)
(* the caret is not inside the surface; it returns a number only for a      *)
(* caret inside the surface.                                                *)
SaveNullOutside ==
    last.ev = "save"
        => (last.position = NULL
                <=> (selection.rangeCount = 0 \/ selection.start.at # "surface"))

\* a shift+Enter 'keydown' is handled with a collapsed caret inside the
\* surface
ShiftEnterAtCaret ==
    /\ last'.ev = "keydown" /\ last'.shiftKey /\ last'.key = "Enter"
    /\ selection.rangeCount = 1
    /\ collapsed(selection)
    /\ selection.start.at = "surface"

\* the text with k line breaks put in after its first p characters
WithLineBreaks(text, p, k) ==
    SubSeq(text, 1, p) \o [i \in 1..k |-> "\n"] \o SubSeq(text, p + 1, Len(text))

ShiftEnter == last'.ev = "keydown" /\ last'.shiftKey /\ last'.key = "Enter"

(* C11: after shift+Enter with the caret captured at offset p inside the    *)
(* surface, for every p of 0..length(text), p = 0 included, the caret is a  *)
(* single collapsed point at offset p + 1; the handler calls no lexer and   *)
(* writes neither the error slot nor a rebuilt tree.                        *)
CaretAfterLineBreak ==
    [][ShiftEnterAtCaret
          => /\ selection'.rangeCount = 1
             /\ collapsed(selection')
             /\ selection'.start.at = "surface"
             /\ Len(TextBefore(childNodes', selection'.start))
                   = Len(TextBefore(childNodes, selection.start)) + 1
             /\ UNCHANGED <<error_text, error_hidden, output>>]_vars

(* C12: shift+Enter with the caret's container outside the surface, or with *)
(* no caret range, is a no-op: the tree, the caret and the error slot are   *)
(* unchanged and no error is raised.                                        *)
ShiftEnterOutsideNoOp ==
    [][(ShiftEnter /\ (selection.rangeCount = 0 \/ selection.end.at # "surface"))
          => /\ UNCHANGED <<childNodes, selection, error_text, error_hidden>>
             /\ ~last'.threw]_vars

(* C13: a plain Enter 'keydown' inserts no character and runs the submit    *)
(* action once before the handler returns; a key other than Enter brings    *)
(* neither an insertion by the handler nor a submit.                        *)
PlainEnterSubmits ==
    [][(last'.ev = "keydown" /\ ~(last'.shiftKey /\ last'.key = "Enter"))
          => /\ UNCHANGED <<childNodes, selection, error_text, error_hidden, output>>
             /\ last'.inserted = 0
             /\ last'.input = textContent(childNodes)
             /\ IF last'.key = "Enter"
                THEN last'.submitted = 1 /\ disabled' = last'.threw
                ELSE last'.submitted = 0 /\ ~last'.threw /\ UNCHANGED disabled]_vars

\* a plain Enter was handled on a text that is not empty and its submit
\* returned
PlainEnterHandled ==
    /\ last.ev = "keydown" /\ last.key = "Enter" /\ ~last.shiftKey
    /\ last.submitted = 1 /\ ~last.threw /\ ~disabled
    /\ Len(last.input) >= 1
    /\ textContent(childNodes) = last.input

\* the class the mapping table gives a kind
TableClass(kind) ==
    IF kind = "Name" THEN "hl-name"
    ELSE IF kind = "Paren" \/ kind = "Comparator" THEN "hl-cmpr"
    ELSE IF kind = "String" THEN "hl-str"
    ELSE IF kind = "Number" THEN "hl-num"
    ELSE IF kind = "JoinType" THEN "hl-join"
    ELSE IF kind = "Error" THEN "hl-invalid"
    ELSE ""

(* C14: the mapping from kind to class of the renderer is total and fixed:  *)
(* Name gives the name class, Paren and Comparator the comparator class,    *)
(* String the string class, Number the number class, JoinType the join      *)
(* class, Error the invalid class, and any other kind the empty class.      *)
ClassMapping ==
    (last.ev = "input" /\ ~output.threw /\ Len(Spans(childNodes)) = Len(output.tokens))
        => \A k \in 1..Len(output.tokens) :
              Spans(childNodes)[k].className = TableClass(output.tokens[k].token)

\* the runs of a tree: its children, each with the text it holds
Runs(nodes) ==
    [k \in 1..Len(nodes) |->
        [styled |-> nodes[k].kind = "span", text |-> textContent(<<nodes[k]>>)]]

\* the runs of the text for the tokens: run 2k is token k, run 2k - 1 the
\* region between token k - 1 and token k, run 2n + 1 the region after the
\* last token; the regions that are empty are no runs
ExpectedRuns(text, tokens) ==
    LET n == Len(tokens)
        from(k) == IF k = 1 THEN 0 ELSE tokens[k - 1].end
        to(k) == IF k > n THEN Len(text) ELSE tokens[k].start
        all == [j \in 1..2 * n + 1 |->
                   IF j % 2 = 0
                   THEN [styled |-> TRUE,
                         text |-> SubSeq(text, tokens[j \div 2].start + 1, tokens[j \div 2].end)]
                   ELSE [styled |-> FALSE,
                         text |-> SubSeq(text, from((j + 1) \div 2) + 1, to((j + 1) \div 2))]]
        isRun(r) == r.styled \/ Len(r.text) # 0
    IN SelectSeq(all, isRun)

(* C17: run structure.  For a token list that keeps the contract the tree   *)
(* installed has one styled run per token, holding text[start:end], and one *)
(* unstyled run per uncovered region that is not empty, in the order of the *)
(* text; where tokens touch each other or the ends of the text there is no  *)
(* run between them.                                                        *)
RunStructure ==
    (last.ev = "input" /\ ~output.threw)
        => Runs(childNodes) = ExpectedRuns(last.input, output.tokens)

\* "a>1" was rendered with the tokens Name [0,1), Comparator [1,2) and
\* Number [2,3): three styled runs and no other
ThreeAdjacentRuns ==
    /\ last.ev = "input" /\ ~output.threw
    /\ last.input = <<"a", ">", "1">>
    /\ output.tokens = <<[token |-> "Name", start |-> 0, end |-> 1],
                         [token |-> "Comparator", start |-> 1, end |-> 2],
                         [token |-> "Number", start |-> 2, end |-> 3]>>
    /\ Len(childNodes) = 3
    /\ \A k \in 1..3 : childNodes[k].kind = "span" /\ Len(childNodes[k].childNodes) = 1
    /\ <<childNodes[1].className, childNodes[2].className, childNodes[3].className>>
          = <<"hl-name", "hl-cmpr", "hl-num">>

(* C15: in every state between events, the text of the tree's text nodes in *)
(* pre-order is the raw text most recently supplied to the renderer, the    *)
(* text of the last 'input' event that was rendered.                        *)
TreeTextAsRendered ==
    (output.called /\ ~output.threw) => textContent(childNodes) = output.input

(* C18: when the lexer returns a token list that breaks the contract, out  *)
(* of order or overlapping, the renderer detects it and fails instead of    *)
(* installing a tree whose text differs from the input text.                *)
ContractBreachDetected ==
    (last.ev = "input" /\ ~output.threw /\ ~TokenContract(output.tokens, Len(last.input)))
        => (last.threw \/ textContent(childNodes) = last.input)

(* C19: a submit, from the form or from a plain Enter, leaves the tree, the *)
(* caret and the error slot as they were; it calls the parser on the raw    *)
(* text of the surface and changes nothing but the submit control.          *)
SubmitFrame ==
    [][last'.submitted = 1
          => /\ childNodes' = childNodes
             /\ selection' = selection
             /\ error_text' = error_text
             /\ error_hidden' = error_hidden
             /\ output' = output
             /\ last'.input = textContent(childNodes)]_vars

\* the form was submitted with a caret inside a highlighted text
SubmitWithCaret ==
    /\ last.ev = "submit" /\ last.submitted = 1
    /\ Len(last.input) >= 1
    /\ selection.rangeCount = 1 /\ selection.start.at = "surface"
    /\ Len(Spans(childNodes)) >= 1
    /\ textContent(childNodes) = last.input

(* C20: fixpoint.  With a deterministic lexer, a second 'input' event with *)
(* no edit since the first leaves the surface as the first left it: the     *)
(* same runs and classes, the same raw text, the same captured and restored *)
(* caret offset, the same error slot, for every caret offset of             *)
(* 0..length(text).                                                         *)
Fixpoint ==
    [][(Returned /\ last.position \in 0..Len(last.input)
          /\ last'.ev = "input" /\ output' = output)
          => /\ childNodes' = childNodes
             /\ selection' = selection
             /\ last'.position = last.position
             /\ last'.input = last.input
             /\ error_text' = error_text
             /\ error_hidden' = error_hidden]_vars

\* after an 'input' event with a degraded lex result the caret is back inside
\* the text of a tree with a span, with an 'input' event that repeats it
\* enabled
FixpointReached ==
    /\ Returned
    /\ Len(last.input) >= 2
    /\ last.position \in 1..Len(last.input)
    /\ selection.rangeCount = 1 /\ selection.start.at = "surface"
    /\ Len(Spans(childNodes)) >= 1
    /\ Len(output.errors) # 0
    /\ saveCursorPosition(childNodes, selection) = last.position
    /\ textContent(childNodes) = output.input

(* C16: within one 'input' event the statements run in this order: the     *)
(* caret offset is captured from the tree the edit left, before any         *)
(* replacement; then the lexer is called; then the new tree is built off    *)
(* the surface, which keeps the old tree and caret meanwhile; then the      *)
(* children of the surface are replaced in one step by the complete         *)
(* rendered tree; then the caret is restored on the new tree with the       *)
(* captured offset.  No other listener runs while the call is running, so   *)
(* each of them finds the tree as typed or completely rendered.             *)
StepOrder ==
    [][/\ last'.ev = "saved"
            => /\ Idle
               /\ last'.position = saveCursorPosition(childNodes', selection')
               /\ last'.input = textContent(childNodes')
               /\ output' = output
       /\ last'.ev = "lexed"
            => /\ last.ev = "saved"
               /\ output'.called /\ ~output'.threw /\ output'.input = last.input
               /\ childNodes' = childNodes /\ selection' = selection
               /\ last'.position = saveCursorPosition(childNodes', selection')
       /\ last'.ev = "built"
            => /\ last.ev = "lexed"
               /\ last'.wrapper = wrapper(variant, last.input, output.tokens)
               /\ childNodes' = childNodes /\ selection' = selection
               /\ last'.position = saveCursorPosition(childNodes', selection')
               /\ output' = output
       /\ last'.ev = "installed"
            => /\ last.ev = "built"
               /\ childNodes' = rendered(variant, last.input, output.tokens)
               /\ last'.position = last.position
               /\ output' = output
       /\ last.ev = "installed"
            => /\ last'.ev = "input"
               /\ childNodes' = childNodes
               /\ selection' = restoreCursorPosition(childNodes, selection, last.position)
               /\ last'.position = last.position
       /\ last.ev \in RunningAt => last'.ev \in RunningAt \cup {"input"}
       /\ last'.ev \in {"select", "keydown", "submit"}
            => \/ textContent(childNodes) = <<>>
               \/ ~output.called
               \/ output.threw
               \/ childNodes = rendered(variant, output.input, output.tokens)]_vars

\* a call of handleFilterInput has gone through its five statements: the
\* tree with a span is installed and the caret is back at the captured
\* offset inside the text
StepsDone ==
    /\ last.ev = "input"
    /\ output.called /\ ~output.threw
    /\ Len(last.input) >= 2
    /\ last.position \in 1..Len(last.input) - 1
    /\ Len(Spans(childNodes)) >= 1
    /\ childNodes = rendered(variant, last.input, output.tokens)
    /\ saveCursorPosition(childNodes, selection) = last.position

====
